---- MODULE Spec2Model ----
(***************************************************************************)
(* Model of the weather service layer of the home_stack frontend:          *)
(* ApiError, WeatherService, WeatherHub, EnhancedWeatherService and the    *)
(* error/retry behaviour of the weather views.                             *)
(*                                                                         *)
(* Texts are sequences of words; JavaScript values are tagged records so   *)
(* that truthiness, `||` and `&&` are computed as JavaScript computes them. *)
(***************************************************************************)
EXTENDS Integers, Sequences, FiniteSets, TLC

VARIABLES
    apiArgs,     \* arguments handed to `new ApiError(status, statusText, data)`
    apiError,    \* the ApiError built from apiArgs, or NoError
    op,          \* service-layer call in progress ("idle" when none)
    arg,         \* its type argument (ForecastType / WeatherDataType / method)
    reqs,        \* HTTP requests issued by the call, in issue order
    subs,        \* WeatherHub.getWeatherDashboard: the three sub-results
    promise,     \* state of the promise returned by the call
    result,      \* WeatherResult of getForecast / getWeatherData
    dash,        \* result object of a dashboard / extended-forecast call
    events,      \* issue and settle events of the call, in time order
    calls,       \* number of calls started in this session
    view,        \* weather view being shown
    queries,     \* state of each useQuery the view depends on
    ui,          \* what the view renders
    refetched,   \* queries refetched by the last retry activation
    latest,      \* latest reading set handed to a readings component
    shown,       \* what the readings component shows
    forecasts,   \* forecast list handed to a list helper
    out,         \* the helper called on it, with its arguments and result
    text,        \* forecast text handed to categorizeWeatherForecast
    category     \* the category it returned

apiVars  == <<apiArgs, apiError>>
hubVars  == <<op, arg, reqs, subs, promise, result, dash, events, calls>>
viewVars == <<view, queries, ui, refetched>>
readingVars == <<latest, shown>>
utilVars == <<forecasts, out, text, category>>
pureVars == <<latest, shown, forecasts, out, text, category>>
vars     == <<apiArgs, apiError, op, arg, reqs, subs, promise, result, dash,
              events, calls, view, queries, ui, refetched, latest, shown,
              forecasts, out, text, category>>

\* Number of service-layer calls made in one session.
MaxCalls == 2

----------------------------------------------------------------------------
(* Texts *)

\* String.prototype.toLowerCase, word by word.
LowerWord(w) ==
    CASE w = "No"        -> "no"
      [] w = "NO"        -> "no"
      [] w = "Data"      -> "data"
      [] w = "DATA"      -> "data"
      [] w = "Available" -> "available"
      [] w = "AVAILABLE" -> "available"
      [] w = "API"       -> "api"
      [] w = "Error:"    -> "error:"
      [] w = "Not"       -> "not"
      [] w = "Found"     -> "found"
      [] w = "Internal"  -> "internal"
      [] w = "Server"    -> "server"
      [] w = "Error"     -> "error"
      [] w = "Network"   -> "network"
      [] w = "Service"   -> "service"
      [] w = "Unavailable" -> "unavailable"
      [] w = "Failed"    -> "failed"
      [] w = "Unknown"   -> "unknown"
      [] w = "C"         -> "c"
      [] w = "D"         -> "d"
      [] w = "F"         -> "f"
      [] w = "G"         -> "g"
      [] w = "H"         -> "h"
      [] w = "L"         -> "l"
      [] w = "M"         -> "m"
      [] w = "N"         -> "n"
      [] w = "O"         -> "o"
      [] w = "P"         -> "p"
      [] w = "R"         -> "r"
      [] w = "S"         -> "s"
      [] w = "T"         -> "t"
      [] w = "U"         -> "u"
      [] w = "W"         -> "w"
      [] w = "Y"         -> "y"
      [] OTHER           -> w

toLowerCase(s) == [i \in 1..Len(s) |-> LowerWord(s[i])]

\* String.prototype.includes: sub occurs in s as a contiguous run.
includes(s, sub) ==
    \E k \in 0..(Len(s) - Len(sub)) :
        \A j \in 1..Len(sub) : s[k + j] = sub[j]

NoDataPhrase == <<"no", "data", "available">>

\* s.toLowerCase().includes('no data available')
HasNoDataPhrase(s) == includes(toLowerCase(s), NoDataPhrase)

----------------------------------------------------------------------------
(* JavaScript values *)

JsUndefined == [t |-> "undefined", b |-> FALSE, n |-> 0, s |-> <<>>, mt |-> "undefined", ms |-> <<>>, mn |-> 0]
JsNull      == [JsUndefined EXCEPT !.t = "null"]
JsBool(x)   == [JsUndefined EXCEPT !.t = "boolean", !.b = x]
JsNum(x)    == [JsUndefined EXCEPT !.t = "number", !.n = x]
JsStr(x)    == [JsUndefined EXCEPT !.t = "string", !.s = x]
\* an object without a message property, or with a string / numeric one
JsObj          == [JsUndefined EXCEPT !.t = "object"]
JsObjMsg(x)    == [JsUndefined EXCEPT !.t = "object", !.mt = "string", !.ms = x]
JsObjNumMsg(x) == [JsUndefined EXCEPT !.t = "object", !.mt = "number", !.mn = x]

\* v.message
MessageOf(v) ==
    IF v.t # "object" THEN JsUndefined
    ELSE IF v.mt = "string" THEN JsStr(v.ms)
    ELSE IF v.mt = "number" THEN JsNum(v.mn)
    ELSE JsUndefined

\* ToBoolean
Truthy(v) ==
    CASE v.t = "boolean" -> v.b
      [] v.t = "number"  -> v.n # 0
      [] v.t = "string"  -> v.s # <<>>
      [] v.t = "object"  -> TRUE
      [] OTHER           -> FALSE

\* a || b   and   a && b
JsOr(a, b)  == IF Truthy(a) THEN a ELSE b
JsAnd(a, b) == IF Truthy(a) THEN b ELSE a

----------------------------------------------------------------------------
(* ApiError *)

StatusWord(status) ==
    CASE status = 404 -> "404"
      [] status = 500 -> "500"
      [] status = 503 -> "503"
      [] OTHER        -> "0"

\* The value assigned to this.isNoDataAvailable.
ComputeNoDataFlag(status, statusText, data) ==
    JsOr(JsOr(JsOr(JsBool(status = 404),
                   JsAnd(JsStr(statusText), JsBool(HasNoDataPhrase(statusText)))),
              JsAnd(JsAnd(data, JsBool(data.t = "string")),
                    JsBool(HasNoDataPhrase(data.s)))),
         JsAnd(JsAnd(JsAnd(data, MessageOf(data)),
                     JsBool(MessageOf(data).t = "string")),
               JsBool(HasNoDataPhrase(MessageOf(data).s))))

\* Thrown values.  isError: `instanceof Error`; isApiError: `instanceof ApiError`;
\* hasFlag: `"isNoDataAvailable" in error`.
MkError(isErr, isApi, nm, msg, hasMsg, hasFlg, flg) ==
    [isError |-> isErr, isApiError |-> isApi, name |-> nm, message |-> msg,
     hasMessage |-> hasMsg, hasFlag |-> hasFlg, flag |-> flg]

NoError == MkError(FALSE, FALSE, "none", <<>>, FALSE, FALSE, JsUndefined)

\* new ApiError(status, statusText, data)
NewApiError(status, statusText, data) ==
    MkError(TRUE, TRUE, "ApiError",
            <<"API", "Error:", StatusWord(status)>> \o statusText,
            TRUE, TRUE, ComputeNoDataFlag(status, statusText, data))

Statuses == {404, 500, 503}

StatusTexts ==
    { <<>>,
      <<"Not", "Found">>,
      <<"Internal", "Server", "Error">>,
      <<"No", "Data", "Available">>,
      <<"Service", "Unavailable:", "NO", "DATA", "AVAILABLE", "yet">> }

DataValues ==
    { JsUndefined, JsNull, JsNum(0), JsStr(<<>>),
      JsStr(<<"Internal", "Server", "Error">>),
      JsStr(<<"Sorry,", "no", "data", "available">>),
      JsObj,
      JsObjMsg(<<>>),
      JsObjMsg(<<"Not", "Found">>),
      JsObjMsg(<<"No", "data", "Available", "for", "this", "date">>),
      JsObjNumMsg(42) }

NoArgs == [status |-> 0, statusText |-> <<>>, data |-> JsUndefined]

ApiInit ==
    /\ apiArgs \in [status : Statuses, statusText : StatusTexts, data : DataValues]
    /\ apiError = NoError

\* The constructor runs on the drawn arguments.
Construct ==
    /\ apiError = NoError
    /\ apiError' = NewApiError(apiArgs.status, apiArgs.statusText, apiArgs.data)
    /\ UNCHANGED <<apiArgs, hubVars, viewVars, pureVars>>

----------------------------------------------------------------------------
(* Responses of the generated client *)

\* sdk.gen function called by each WeatherService method
Endpoints ==
    {"weatherGetTwoHourForecast", "weatherGetAirTemperature",
     "weatherGetWindDirection", "weatherGetLightning", "weatherGetWbgt",
     "weatherGetTwentyFourHourForecast", "weatherGetFourDayOutlook"}

\* length of an array property; Absent when the property is missing
Absent == -1
ArrLens == {Absent, 0, 2}

\* t: "undefined" | "null" | "object"; hasData: the response has a `data`
\* property; ep: the endpoint that produced the response.
MkResp(ty, hd, it, rc, rd, e) ==
    [t |-> ty, hasData |-> hd, items |-> it, records |-> rc, readings |-> rd, ep |-> e]

UndefResp == MkResp("undefined", FALSE, Absent, Absent, Absent, "none")
NullResp  == MkResp("null", FALSE, Absent, Absent, Absent, "none")

Responses ==
    {UndefResp, NullResp, MkResp("object", FALSE, Absent, Absent, Absent, "none")}
    \cup { MkResp("object", TRUE, it, rc, rd, "none") :
             it \in ArrLens, rc \in ArrLens, rd \in ArrLens }

GenericError  == MkError(TRUE, FALSE, "Error", <<"Network", "Error">>, TRUE, FALSE, JsUndefined)
FetchError    == MkError(TRUE, FALSE, "TypeError", <<"Failed", "to", "fetch">>, TRUE, FALSE, JsUndefined)
PhraseError   == MkError(TRUE, FALSE, "Error",
                         <<"No", "Data", "Available", "for", "the", "requested", "date">>,
                         TRUE, FALSE, JsUndefined)
\* an error class of the generated client that is named ApiError but has no flag
ForeignApiError == MkError(TRUE, FALSE, "ApiError", <<"Not", "Found">>, TRUE, FALSE, JsUndefined)
\* a plain Error tagged with Object.assign(error, { isNoDataAvailable: true })
TaggedError   == MkError(TRUE, FALSE, "Error", <<"Failed">>, TRUE, TRUE, JsBool(TRUE))
\* non-Error rejection values: undefined, a string, a parsed JSON error body
ThrownUndefined == MkError(FALSE, FALSE, "undefined", <<>>, FALSE, FALSE, JsUndefined)
ThrownBody      == MkError(FALSE, FALSE, "body", <<>>, FALSE, FALSE, JsUndefined)

Errors ==
    { GenericError, FetchError, PhraseError, ForeignApiError, TaggedError,
      ThrownUndefined, ThrownBody,
      NewApiError(404, <<"Not", "Found">>, JsUndefined),
      NewApiError(500, <<"Internal", "Server", "Error">>, JsUndefined),
      NewApiError(503, <<"No", "Data", "Available">>, JsNull),
      NewApiError(500, <<"Internal", "Server", "Error">>,
                  JsObjMsg(<<"No", "data", "Available", "for", "this", "date">>)) }

\* how a request settles
MkOutcome(k, r, e) == [kind |-> k, resp |-> r, err |-> e]

Outcomes ==
    { MkOutcome("fulfilled", r, NoError) : r \in Responses }
    \cup { MkOutcome("rejected", UndefResp, e) : e \in Errors }

\* outcomes drawn for each request of a fan-out
FanOutOutcomes ==
    { MkOutcome("fulfilled", r, NoError) :
        r \in { NullResp,
                MkResp("object", FALSE, Absent, Absent, Absent, "none"),
                MkResp("object", TRUE, 0, Absent, 0, "none"),
                MkResp("object", TRUE, 2, Absent, Absent, "none"),
                MkResp("object", TRUE, Absent, Absent, 2, "none") } }
    \cup { MkOutcome("rejected", UndefResp, e) :
             e \in { GenericError, PhraseError, ThrownBody,
                     NewApiError(404, <<"Not", "Found">>, JsUndefined) } }

----------------------------------------------------------------------------
(* WeatherHub.getForecast / getWeatherData *)

ForecastTypes    == {"two-hour", "twenty-four-hour", "four-day"}
WeatherDataTypes == {"air-temperature", "wind-direction", "lightning", "wbgt"}

\* switch (type) in getForecast
ForecastEndpoint(type) ==
    CASE type = "two-hour"         -> "weatherGetTwoHourForecast"
      [] type = "twenty-four-hour" -> "weatherGetTwentyFourHourForecast"
      [] type = "four-day"         -> "weatherGetFourDayOutlook"

\* switch (type) in getWeatherData
WeatherDataEndpoint(type) ==
    CASE type = "air-temperature" -> "weatherGetAirTemperature"
      [] type = "wind-direction"  -> "weatherGetWindDirection"
      [] type = "lightning"       -> "weatherGetLightning"
      [] type = "wbgt"            -> "weatherGetWbgt"

\* WeatherResult<T>; the timestamp is not modelled
MkResult(d, ok, e, nd) ==
    [data |-> d, success |-> ok, error |-> e, isNoDataAvailable |-> nd]

NoResult == MkResult(UndefResp, FALSE, JsUndefined, JsUndefined)

\* bug variant: looks at items only
ForecastHasDataItemsOnly(data) ==
    data.t = "object" /\ data.hasData /\ data.items # Absent /\ data.items > 0

\* hasData of getForecast
ForecastHasData(data) ==
    /\ data.t = "object"
    /\ \/ (data.hasData /\ data.items # Absent /\ data.items > 0)
       \/ (data.hasData /\ data.records # Absent /\ data.records > 0)

\* hasData of getWeatherData
WeatherDataHasData(data) ==
    /\ data.t = "object"
    /\ \/ (data.hasData /\ data.readings # Absent /\ data.readings > 0)
       \/ (data.hasData /\ data.items # Absent /\ data.items > 0)

NoForecastDataText == <<"No", "weather", "forecast", "data", "available", "at", "this", "time.">>
NoWeatherDataText  == <<"No", "weather", "data", "available", "at", "this", "time.">>
UnknownErrorText   == <<"Unknown", "error">>

\* bug variant: reads the message of whatever was thrown
ErrorMessageUnchecked(error) == error.message

\* errorMessage in the catch blocks
ErrorMessage(error) ==
    IF error.isError THEN error.message ELSE UnknownErrorText

\* bug variant: looks at the message only
CaughtIsNoDataMessageOnly(error) ==
    error.isError /\ HasNoDataPhrase(error.message)

\* isNoDataAvailable in the catch blocks
CaughtIsNoData(error) ==
    \/ (error.isError /\ HasNoDataPhrase(error.message))
    \/ (error.isError /\ error.name = "ApiError" /\ error.hasFlag /\ Truthy(error.flag))

\* the catch block of getForecast and of getWeatherData
CaughtResult(error) ==
    MkResult(NullResp, FALSE, JsStr(ErrorMessage(error)), JsBool(CaughtIsNoData(error)))

\* the try block after the await
CheckedResult(data, hasData, noDataText) ==
    IF ~hasData
    THEN MkResult(data, FALSE, JsStr(noDataText), JsBool(TRUE))
    ELSE MkResult(data, TRUE, JsUndefined, JsUndefined)

\* getForecast, from the settling of its request on
ForecastResult(o) ==
    IF o.kind = "fulfilled"
    THEN CheckedResult(o.resp, ForecastHasData(o.resp), NoForecastDataText)
    ELSE CaughtResult(o.err)

\* getWeatherData, from the settling of its request on
WeatherDataResult(o) ==
    IF o.kind = "fulfilled"
    THEN CheckedResult(o.resp, WeatherDataHasData(o.resp), NoWeatherDataText)
    ELSE CaughtResult(o.err)

----------------------------------------------------------------------------
(* Requests, and the calls of the service layer *)

MkReq(e, s, r, x) == [ep |-> e, st |-> s, resp |-> r, err |-> x]

PendingReq(e) == MkReq(e, "pending", UndefResp, NoError)

\* the request after it settled with outcome o; a response is tagged with
\* the endpoint that served it
SettledReq(r, o) ==
    IF o.kind = "fulfilled"
    THEN MkReq(r.ep, "fulfilled", [o.resp EXCEPT !.ep = r.ep], NoError)
    ELSE MkReq(r.ep, "rejected", UndefResp, o.err)

\* bug variant: a rejected request is issued once more
AfterSettleRetry(rs, i, o) ==
    IF o.kind = "rejected"
    THEN [rs EXCEPT ![i] = SettledReq(rs[i], o)] \o <<PendingReq(rs[i].ep)>>
    ELSE [rs EXCEPT ![i] = SettledReq(rs[i], o)]

\* the requests of the call after request i settled: nothing is re-issued
AfterSettle(rs, i, o) == [rs EXCEPT ![i] = SettledReq(rs[i], o)]

\* the outcome as the awaiting code sees it
Seen(r) == MkOutcome(r.st, r.resp, r.err)

MkEvent(k, idx) == [e |-> k, i |-> idx]

\* a sub-result of WeatherHub.getWeatherDashboard
MkSub(d, r) == [done |-> d, res |-> r]

\* result object of the dashboard and extended-forecast calls; shape tells
\* which properties it has: "full" (one per response), "partial" (partialData)
\* or "bare" (success, error and timestamp only)
MkDash(ok, e, sh, f2h, at, wd, f24, f4d) ==
    [success |-> ok, error |-> e, shape |-> sh, twoHourForecast |-> f2h,
     airTemperature |-> at, windDirection |-> wd, twentyFourHour |-> f24,
     fourDay |-> f4d]

NoDash == MkDash(FALSE, JsUndefined, "none", UndefResp, UndefResp, UndefResp,
                 UndefResp, UndefResp)

WeatherServiceMethods ==
    {"getTwoHourForecast", "getAirTemperature", "getWindDirection",
     "getLightning", "getWbgt", "getTwentyFourHourForecast", "getFourDayOutlook"}

\* the sdk.gen function each WeatherService method awaits
ServiceEndpoint(method) ==
    CASE method = "getTwoHourForecast"        -> "weatherGetTwoHourForecast"
      [] method = "getAirTemperature"         -> "weatherGetAirTemperature"
      [] method = "getWindDirection"          -> "weatherGetWindDirection"
      [] method = "getLightning"              -> "weatherGetLightning"
      [] method = "getWbgt"                   -> "weatherGetWbgt"
      [] method = "getTwentyFourHourForecast" -> "weatherGetTwentyFourHourForecast"
      [] method = "getFourDayOutlook"         -> "weatherGetFourDayOutlook"

HubInit ==
    /\ op = "idle"
    /\ arg = "none"
    /\ reqs = <<>>
    /\ subs = <<>>
    /\ promise = "none"
    /\ result = NoResult
    /\ dash = NoDash
    /\ events = <<>>
    /\ calls = 0

\* a call can start when no call is awaiting
CanCall == promise # "pending" /\ calls < MaxCalls

\* what every call sets up: its requests are issued synchronously, in order
Begin(o, a, eps) ==
    /\ CanCall
    /\ op' = o
    /\ arg' = a
    /\ reqs' = [i \in 1..Len(eps) |-> PendingReq(eps[i])]
    /\ events' = [i \in 1..Len(eps) |-> MkEvent("issue", i)]
    /\ promise' = "pending"
    /\ result' = NoResult
    /\ dash' = NoDash
    /\ calls' = calls + 1
    /\ UNCHANGED <<apiVars, viewVars, pureVars>>

\* WeatherService.<method>(): one awaited sdk.gen call
CallService ==
    \E m \in WeatherServiceMethods :
        /\ Begin("service", m, <<ServiceEndpoint(m)>>)
        /\ subs' = <<>>

\* the request of a WeatherService call settles; the method returns the
\* response or rethrows
SettleService ==
    \E o \in Outcomes :
        /\ op = "service" /\ promise = "pending"
        /\ reqs' = AfterSettle(reqs, 1, o)
        /\ events' = events \o <<MkEvent("settle", 1), MkEvent("return", 0)>>
        /\ promise' = o.kind
        /\ UNCHANGED <<op, arg, subs, result, dash, calls, apiVars, viewVars, pureVars>>

\* WeatherHub.getForecast(type), up to its await
CallGetForecast ==
    \E type \in ForecastTypes :
        /\ Begin("getForecast", type, <<ForecastEndpoint(type)>>)
        /\ subs' = <<>>

\* WeatherHub.getWeatherData(type), up to its await
CallGetWeatherData ==
    \E type \in WeatherDataTypes :
        /\ Begin("getWeatherData", type, <<WeatherDataEndpoint(type)>>)
        /\ subs' = <<>>

\* the request of getForecast settles and the rest of getForecast runs
SettleGetForecast ==
    \E o \in Outcomes :
        /\ op = "getForecast" /\ promise = "pending"
        /\ reqs' = AfterSettle(reqs, 1, o)
        /\ result' = ForecastResult(Seen(reqs'[1]))
        /\ events' = events \o <<MkEvent("settle", 1), MkEvent("return", 0)>>
        /\ promise' = "fulfilled"
        /\ UNCHANGED <<op, arg, subs, dash, calls, apiVars, viewVars, pureVars>>

\* the request of getWeatherData settles and the rest of getWeatherData runs
SettleGetWeatherData ==
    \E o \in Outcomes :
        /\ op = "getWeatherData" /\ promise = "pending"
        /\ reqs' = AfterSettle(reqs, 1, o)
        /\ result' = WeatherDataResult(Seen(reqs'[1]))
        /\ events' = events \o <<MkEvent("settle", 1), MkEvent("return", 0)>>
        /\ promise' = "fulfilled"
        /\ UNCHANGED <<op, arg, subs, dash, calls, apiVars, viewVars, pureVars>>

----------------------------------------------------------------------------
(* WeatherHub.getWeatherDashboard *)

\* the array handed to Promise.all, in order
HubDashboardCalls ==
    << [fn |-> "getForecast",    type |-> "two-hour"],
       [fn |-> "getWeatherData", type |-> "air-temperature"],
       [fn |-> "getWeatherData", type |-> "wind-direction"] >>

SubEndpoint(c) ==
    IF c.fn = "getForecast" THEN ForecastEndpoint(c.type)
    ELSE WeatherDataEndpoint(c.type)

SubResult(c, o) ==
    IF c.fn = "getForecast" THEN ForecastResult(o) ELSE WeatherDataResult(o)

\* bug variant: ready as soon as one is done (Promise.race)
PromiseAnyDone(ss) == \E i \in 1..Len(ss) : ss[i].done

\* Promise.all over promises that never reject: ready when every one is done
PromiseAllDone(ss) == \A i \in 1..Len(ss) : ss[i].done

FailedPrefix == <<"Failed", "to", "fetch", "some", "weather", "data:">>

\* Array.prototype.join(", ") over texts
RECURSIVE JoinTexts(_)
JoinTexts(ts) ==
    IF Len(ts) = 0 THEN <<>>
    ELSE IF Len(ts) = 1 THEN ts[1].s
    ELSE ts[1].s \o <<",">> \o JoinTexts(Tail(ts))

\* bug variant: joins without filtering
JoinedErrorsUnfiltered(es) == JoinTexts(es)

\* [..].filter(Boolean).join(", ")
JoinedErrors(es) == JoinTexts(SelectSeq(es, Truthy))

\* getWeatherDashboard after `await Promise.all`
HubDashboardResult(twoHourResult, airTempResult, windDirectionResult) ==
    IF \/ ~twoHourResult.success
       \/ ~airTempResult.success
       \/ ~windDirectionResult.success
    THEN MkDash(FALSE,
                JsStr(FailedPrefix \o JoinedErrors(<<twoHourResult.error,
                                                    airTempResult.error,
                                                    windDirectionResult.error>>)),
                "partial",
                twoHourResult.data, airTempResult.data, windDirectionResult.data,
                UndefResp, UndefResp)
    ELSE MkDash(TRUE, JsUndefined, "full",
                twoHourResult.data, airTempResult.data, windDirectionResult.data,
                UndefResp, UndefResp)

\* getWeatherDashboard up to its await: the three sub-calls run up to theirs
CallHubDashboard ==
    /\ Begin("hubDashboard", "none",
             [i \in 1..Len(HubDashboardCalls) |-> SubEndpoint(HubDashboardCalls[i])])
    /\ subs' = [i \in 1..Len(HubDashboardCalls) |-> MkSub(FALSE, NoResult)]

\* one request of the dashboard settles: its sub-call finishes, and when it
\* was the last one the rest of getWeatherDashboard runs
SettleHubDashboard ==
    \E i \in 1..Len(reqs), o \in FanOutOutcomes :
        /\ op = "hubDashboard"
        /\ reqs[i].st = "pending"
        /\ reqs' = AfterSettle(reqs, i, o)
        /\ subs' = [subs EXCEPT ![i] =
                       MkSub(TRUE, SubResult(HubDashboardCalls[i], Seen(reqs'[i])))]
        /\ IF promise = "pending" /\ PromiseAllDone(subs')
           THEN /\ dash' = HubDashboardResult(subs'[1].res, subs'[2].res, subs'[3].res)
                /\ promise' = "fulfilled"
                /\ events' = events \o <<MkEvent("settle", i), MkEvent("return", 0)>>
           ELSE /\ UNCHANGED <<dash, promise>>
                /\ events' = events \o <<MkEvent("settle", i)>>
        /\ UNCHANGED <<op, arg, result, calls, apiVars, viewVars, pureVars>>

----------------------------------------------------------------------------
(* EnhancedWeatherService.getWeatherDashboard / getExtendedForecast *)

EnhancedDashboardEndpoints ==
    <<ServiceEndpoint("getTwoHourForecast"), ServiceEndpoint("getAirTemperature"),
      ServiceEndpoint("getWindDirection")>>

EnhancedExtendedEndpoints ==
    <<ServiceEndpoint("getTwentyFourHourForecast"), ServiceEndpoint("getFourDayOutlook")>>

CallEnhancedDashboard ==
    /\ Begin("enhancedDashboard", "none", EnhancedDashboardEndpoints)
    /\ subs' = <<>>

CallEnhancedExtended ==
    /\ Begin("enhancedExtended", "none", EnhancedExtendedEndpoints)
    /\ subs' = <<>>

\* bug variant: waits for every request (Promise.allSettled)
PromiseAllSettlesLast(rs, i) == \A j \in 1..Len(rs) : rs[j].st # "pending"

\* Promise.all settles when request i settled: it rejects as soon as one
\* request rejects, and fulfils when all have fulfilled
PromiseAllSettles(rs, i) ==
    \/ rs[i].st = "rejected"
    \/ \A j \in 1..Len(rs) : rs[j].st = "fulfilled"

\* the return statement of the try block
EnhancedSuccess(o, rs) ==
    IF o = "enhancedDashboard"
    THEN MkDash(TRUE, JsUndefined, "full", rs[1].resp, rs[2].resp, rs[3].resp,
                UndefResp, UndefResp)
    ELSE MkDash(TRUE, JsUndefined, "full", UndefResp, UndefResp, UndefResp,
                rs[1].resp, rs[2].resp)

\* the return statement of the catch block
EnhancedFailure(error) ==
    MkDash(FALSE, JsStr(ErrorMessage(error)), "bare", UndefResp, UndefResp,
           UndefResp, UndefResp, UndefResp)

\* one request of the fan-out settles; when that settles Promise.all, the
\* rest of the method runs
SettleEnhanced ==
    \E i \in 1..Len(reqs), o \in FanOutOutcomes :
        /\ op \in {"enhancedDashboard", "enhancedExtended"}
        /\ reqs[i].st = "pending"
        /\ reqs' = AfterSettle(reqs, i, o)
        /\ IF promise = "pending" /\ PromiseAllSettles(reqs', i)
           THEN /\ dash' = IF reqs'[i].st = "rejected"
                           THEN EnhancedFailure(reqs'[i].err)
                           ELSE EnhancedSuccess(op, reqs')
                /\ promise' = "fulfilled"
                /\ events' = events \o <<MkEvent("settle", i), MkEvent("return", 0)>>
           ELSE /\ UNCHANGED <<dash, promise>>
                /\ events' = events \o <<MkEvent("settle", i)>>
        /\ UNCHANGED <<op, arg, subs, result, calls, apiVars, viewVars, pureVars>>

----------------------------------------------------------------------------
(* The WindDirection and AirTemperature components: averages of the latest *)
(* reading set                                                              *)

\* longest reading set drawn
MaxReadings == 3

\* value: null of a station reading
NullValue == -1

\* directions in degrees and temperatures in degrees Celsius
WindValues == {0, 10, 90, 350, 359}
TempValues == {24, 27, 31}

\* readings[0] of a payload: its readingType and the values of its data
MkReading(ty, d) == [readingType |-> ty, data |-> d]

NoReading == MkReading("none", <<>>)

ReadingLists(values) ==
    UNION { [1..n -> values \cup {NullValue}] : n \in 0..MaxReadings }

LatestReadings ==
    { MkReading("wind-direction", d) : d \in ReadingLists(WindValues) }
    \cup { MkReading("air-temperature", d) : d \in ReadingLists(TempValues) }

\* latestReading.data.filter(r => r.value !== null)
ValidReadings(data) == SelectSeq(data, LAMBDA value : value # NullValue)

\* Array.prototype.slice(0, n)
Slice(data, n) == SubSeq(data, 1, IF Len(data) < n THEN Len(data) ELSE n)

\* Fixed-point trigonometry.  A sine is held as an integer number of
\* 1/Scale; SinTable[d + 1] is the sine of d degrees, d in 0..90.
Scale == 10000

SinTable ==
    <<    0,  175,  349,  523,  698,  872, 1045, 1219, 1392, 1564,
       1736, 1908, 2079, 2250, 2419, 2588, 2756, 2924, 3090, 3256,
       3420, 3584, 3746, 3907, 4067, 4226, 4384, 4540, 4695, 4848,
       5000, 5150, 5299, 5446, 5592, 5736, 5878, 6018, 6157, 6293,
       6428, 6561, 6691, 6820, 6947, 7071, 7193, 7314, 7431, 7547,
       7660, 7771, 7880, 7986, 8090, 8192, 8290, 8387, 8480, 8572,
       8660, 8746, 8829, 8910, 8988, 9063, 9135, 9205, 9272, 9336,
       9397, 9455, 9511, 9563, 9613, 9659, 9703, 9744, 9781, 9816,
       9848, 9877, 9903, 9925, 9945, 9962, 9976, 9986, 9994, 9998,
      10000 >>

\* Math.sin((value * Math.PI) / 180) and Math.cos((value * Math.PI) / 180)
SinDeg(value) ==
    LET a == value % 360 IN
    CASE a <= 90  -> SinTable[a + 1]
      [] a <= 180 -> SinTable[181 - a]
      [] a <= 270 -> 0 - SinTable[a - 179]
      [] OTHER    -> 0 - SinTable[361 - a]

CosDeg(value) == SinDeg(value + 90)

\* radians.reduce((sum, rad) => sum + Math.sin(rad), 0), and the same of cosines
RECURSIVE SinSum(_)
SinSum(values) ==
    IF values = <<>> THEN 0 ELSE SinDeg(Head(values)) + SinSum(Tail(values))

RECURSIVE CosSum(_)
CosSum(values) ==
    IF values = <<>> THEN 0 ELSE CosDeg(Head(values)) + CosSum(Tail(values))

Cross(a, b) == a[1] * b[2] - a[2] * b[1]
Dot(a, b)   == a[1] * b[1] + a[2] * b[2]

\* a vector in the direction of k half-degrees, of length about 2 * Scale
HalfDegree(k) ==
    IF k % 2 = 0
    THEN <<2 * CosDeg(k \div 2), 2 * SinDeg(k \div 2)>>
    ELSE <<CosDeg((k - 1) \div 2) + CosDeg((k + 1) \div 2),
           SinDeg((k - 1) \div 2) + SinDeg((k + 1) \div 2)>>

\* largest error of a cross product of HalfDegree(k) with a sum of n sines
\* and cosines taken from the table
Tolerance(n) == 4 * n * Scale

\* Math.round(((Math.atan2(sinSum / n, cosSum / n) * 180) / Math.PI + 360) % 360)
\* can be r.  The value rounded lies in [0, 360), and rounds to r exactly when
\* it lies in [r - 0.5, r + 0.5).  atan2 depends on the direction of
\* (cosSum, sinSum) only; where the table cannot tell on which side of a
\* half-degree the direction lies, both sides are taken as possible (in the
\* program floating-point rounding decides).  At the direction 0 the sign of
\* sinSum decides: mirrored readings cancel exactly in the table.
RoundsTo(sinSum, cosSum, n, r) ==
    LET v  == <<cosSum, sinSum>>
        lo == IF r = 0 THEN 0 ELSE 2 * r - 1
        hi == IF r = 360 THEN 720 ELSE 2 * r + 1
    IN  /\ Dot(HalfDegree(lo), v) > 0
        /\ IF lo = 0 THEN sinSum >= 0
           ELSE Cross(HalfDegree(lo), v) >= 0 - Tolerance(n)
        /\ IF hi = 720 THEN sinSum < 0
           ELSE Cross(v, HalfDegree(hi)) >= 0 - Tolerance(n)

\* bug variant: the arithmetic mean of the directions
AvgDirectionsArithmetic(values) ==
    LET sum[i \in 0..Len(values)] == IF i = 0 THEN 0 ELSE sum[i - 1] + values[i]
    IN  IF Len(values) = 0 THEN {0}
        ELSE {(2 * sum[Len(values)] + Len(values)) \div (2 * Len(values))}

\* the values avgDirection can take for the valid readings
AvgDirections(values) ==
    IF Len(values) = 0 THEN {0}
    ELSE IF SinSum(values) = 0 /\ CosSum(values) = 0 THEN {0}
    ELSE { r \in 0..360 : RoundsTo(SinSum(values), CosSum(values), Len(values), r) }

CardinalDirections ==
    <<"N", "NNE", "NE", "ENE", "E", "ESE", "SE", "SSE",
      "S", "SSW", "SW", "WSW", "W", "WNW", "NW", "NNW">>

\* directions[Math.round(degrees / 22.5) % 16]
GetCardinalDirection(degrees) ==
    CardinalDirections[(((4 * degrees + 45) \div 90) % 16) + 1]

\* validReadings.reduce((sum, r) => sum + r.value, 0)
RECURSIVE ValueSum(_)
ValueSum(values) ==
    IF values = <<>> THEN 0 ELSE Head(values) + ValueSum(Tail(values))

\* (sum / n).toFixed(1), in tenths
ToFixed1(sum, n) == (20 * sum + n) \div (2 * n)

\* avgTemp.toFixed(1), in tenths
AvgTempTenths(values) ==
    IF Len(values) > 0 THEN ToFixed1(ValueSum(values), Len(values)) ELSE 0

\* what a component shows.  status: "content", or "crashed" when rendering
\* threw; avg: degrees (WindDirection) or tenths of a degree (AirTemperature);
\* count: the N of "Based on N station readings"
MkShown(c, st, a, n, card) ==
    [component |-> c, status |-> st, avg |-> a, count |-> n, cardinal |-> card]

NoShown == MkShown("none", "none", 0, 0, "none")

\* reading.value.toFixed(1) of a station card throws on a null value
CardThrows(data) == \E i \in 1..Len(Slice(data, 9)) : data[i] = NullValue

ReadingsInit ==
    /\ latest \in LatestReadings
    /\ shown = NoShown

ReadingsIdle ==
    /\ latest = NoReading
    /\ shown = NoShown

\* WindDirection renders the latest reading set
RenderWindDirection ==
    /\ shown = NoShown
    /\ latest.readingType = "wind-direction"
    /\ \E avgDirection \in AvgDirections(ValidReadings(latest.data)) :
          shown' = MkShown("WindDirection", "content", avgDirection,
                           Len(ValidReadings(latest.data)),
                           GetCardinalDirection(avgDirection))
    /\ UNCHANGED <<latest, apiVars, hubVars, viewVars, utilVars>>

\* AirTemperature renders the latest reading set
RenderAirTemperature ==
    /\ shown = NoShown
    /\ latest.readingType = "air-temperature"
    /\ shown' = IF CardThrows(latest.data)
                THEN MkShown("AirTemperature", "crashed", 0, 0, "none")
                ELSE MkShown("AirTemperature", "content",
                             AvgTempTenths(ValidReadings(latest.data)),
                             Len(ValidReadings(latest.data)), "none")
    /\ UNCHANGED <<latest, apiVars, hubVars, viewVars, utilVars>>

----------------------------------------------------------------------------
(* WeatherUtils and the list helpers of WeatherHub / EnhancedWeatherService *)

\* longest forecast list drawn, and longest area-metadata list
MaxForecasts == 3
MaxMetadata == 2

\* words in a forecast text drawn for categorizeWeatherForecast
MaxWords == 2

\* the characters of a word
Chars(word) ==
    CASE word = "Fair"     -> <<"F", "a", "i", "r">>
      [] word = "SUNNY"    -> <<"S", "U", "N", "N", "Y">>
      [] word = "Thundery" -> <<"T", "h", "u", "n", "d", "e", "r", "y">>
      [] word = "Showers"  -> <<"S", "h", "o", "w", "e", "r", "s">>
      [] word = "Rain"     -> <<"R", "a", "i", "n">>
      [] word = "Drizzle"  -> <<"D", "r", "i", "z", "z", "l", "e">>
      [] word = "Cloudy"   -> <<"C", "l", "o", "u", "d", "y">>
      [] word = "Overcast" -> <<"O", "v", "e", "r", "c", "a", "s", "t">>
      [] word = "Hazy"     -> <<"H", "a", "z", "y">>
      [] word = "Windy"    -> <<"W", "i", "n", "d", "y">>
      [] word = "Gusty"    -> <<"G", "u", "s", "t", "y">>
      [] word = "Mist"     -> <<"M", "i", "s", "t">>
      [] word = "Heavy"    -> <<"H", "e", "a", "v", "y">>
      [] word = "with"     -> <<"w", "i", "t", "h">>
      [] word = "Winds"    -> <<"W", "i", "n", "d", "s">>
      [] word = "Partly"   -> <<"P", "a", "r", "t", "l", "y">>
      [] word = "(Day)"    -> <<"(", "D", "a", "y", ")">>
      [] word = "Light"    -> <<"L", "i", "g", "h", "t">>
      [] word = "fair"     -> <<"f", "a", "i", "r">>
      [] word = "sunny"    -> <<"s", "u", "n", "n", "y">>
      [] word = "thunder"  -> <<"t", "h", "u", "n", "d", "e", "r">>
      [] word = "rain"     -> <<"r", "a", "i", "n">>
      [] word = "shower"   -> <<"s", "h", "o", "w", "e", "r">>
      [] word = "drizzle"  -> <<"d", "r", "i", "z", "z", "l", "e">>
      [] word = "cloudy"   -> <<"c", "l", "o", "u", "d", "y">>
      [] word = "overcast" -> <<"o", "v", "e", "r", "c", "a", "s", "t">>
      [] word = "hazy"     -> <<"h", "a", "z", "y">>
      [] word = "wind"     -> <<"w", "i", "n", "d">>
      [] word = "gust"     -> <<"g", "u", "s", "t">>

\* the characters of a text: its words separated by single spaces
RECURSIVE TextChars(_)
TextChars(words) ==
    IF Len(words) = 0 THEN <<>>
    ELSE IF Len(words) = 1 THEN Chars(words[1])
    ELSE Chars(words[1]) \o <<" ">> \o TextChars(Tail(words))

\* WeatherCategory
WeatherCategories == <<"SUNNY", "CLOUDY", "RAINY", "THUNDERY", "WINDY", "MISC">>

\* bug variant: rain is looked for before thunder
categorizeRainFirst(forecast) ==
    LET lowercaseForecast == toLowerCase(TextChars(forecast))
        has(word) == includes(lowercaseForecast, Chars(word))
    IN  IF has("fair") \/ has("sunny") THEN "SUNNY"
        ELSE IF has("rain") \/ has("shower") \/ has("drizzle") THEN "RAINY"
        ELSE IF has("thunder") THEN "THUNDERY"
        ELSE IF has("cloudy") \/ has("overcast") \/ has("hazy") THEN "CLOUDY"
        ELSE IF has("wind") \/ has("gust") THEN "WINDY"
        ELSE "MISC"

categorizeWeatherForecast(forecast) ==
    LET lowercaseForecast == toLowerCase(TextChars(forecast))
        has(word) == includes(lowercaseForecast, Chars(word))
    IN  IF has("fair") \/ has("sunny") THEN "SUNNY"
        ELSE IF has("thunder") THEN "THUNDERY"
        ELSE IF has("rain") \/ has("shower") \/ has("drizzle") THEN "RAINY"
        ELSE IF has("cloudy") \/ has("overcast") \/ has("hazy") THEN "CLOUDY"
        ELSE IF has("wind") \/ has("gust") THEN "WINDY"
        ELSE "MISC"

\* words the drawn forecast texts are made of
ForecastWords ==
    {"Fair", "SUNNY", "Thundery", "Showers", "Rain", "Drizzle", "Cloudy",
     "Overcast", "Hazy", "Windy", "Gusty", "Mist", "Heavy"}

ForecastTexts ==
    UNION { [1..n -> ForecastWords] : n \in 0..MaxWords }
    \cup { <<"Heavy", "Thundery", "Showers", "with", "Gusty", "Winds">>,
           <<"Partly", "Cloudy", "(Day)">>,
           <<"Light", "Rain">> }

CategorizeInit ==
    /\ text \in ForecastTexts
    /\ category = "none"

CategorizeIdle ==
    /\ text = <<>>
    /\ category = "none"

\* the UTF-16 code units of a string
CodeUnits(s) ==
    CASE s = "Ang Mo Kio"  -> <<65, 110, 103, 32, 77, 111, 32, 75, 105, 111>>
      [] s = "Bedok"       -> <<66, 101, 100, 111, 107>>
      [] s = "Changi"      -> <<67, 104, 97, 110, 103, 105>>
      [] s = "All Areas"   -> <<65, 108, 108, 32, 65, 114, 101, 97, 115>>
      [] s = "Yishun"      -> <<89, 105, 115, 104, 117, 110>>
      [] s = ""            -> <<>>

\* a < b for strings, as Array.prototype.sort without a comparator orders them
RECURSIVE CodeUnitsLess(_, _)
CodeUnitsLess(a, b) ==
    IF Len(b) = 0 THEN FALSE
    ELSE IF Len(a) = 0 THEN TRUE
    ELSE IF Head(a) # Head(b) THEN Head(a) < Head(b)
    ELSE CodeUnitsLess(Tail(a), Tail(b))

StringLess(a, b) == CodeUnitsLess(CodeUnits(a), CodeUnits(b))

\* [...new Set(list)]: the distinct elements in order of first occurrence
Distinct(list) ==
    LET firsts == { i \in 1..Len(list) : \A j \in 1..(i - 1) : list[j] # list[i] }
        keep[i \in 0..Len(list)] ==
            IF i = 0 THEN <<>>
            ELSE IF i \in firsts THEN Append(keep[i - 1], list[i]) ELSE keep[i - 1]
    IN  keep[Len(list)]

\* the comparators handed to Array.prototype.sort: none (strings in code-unit
\* order), (a, b) => b[1] - a[1] and (a, b) => a[1] - b[1].  Before: the
\* comparator puts a in front of b
Before(comparator, a, b) ==
    CASE comparator = "default"         -> StringLess(a, b)
      [] comparator = "countDescending" -> b[2] - a[2] < 0
      [] comparator = "countAscending"  -> a[2] - b[2] < 0

\* one step of a stable sort: x goes in front of the first element it is
\* before, and to the end when there is none
Insert(sorted, x, comparator) ==
    LET p == IF \E k \in 1..Len(sorted) : Before(comparator, x, sorted[k])
             THEN CHOOSE k \in 1..Len(sorted) :
                      /\ Before(comparator, x, sorted[k])
                      /\ \A j \in 1..(k - 1) : ~Before(comparator, x, sorted[j])
             ELSE Len(sorted) + 1
    IN  SubSeq(sorted, 1, p - 1) \o <<x>> \o SubSeq(sorted, p, Len(sorted))

\* Array.prototype.sort, which is stable
Sort(list, comparator) ==
    LET s[i \in 0..Len(list)] ==
            IF i = 0 THEN <<>> ELSE Insert(s[i - 1], list[i], comparator)
    IN  s[Len(list)]

\* Forecast
MkForecast(a, f) == [area |-> a, forecast |-> f]

Areas == {"Ang Mo Kio", "Bedok", "Changi"}

ListTexts == { <<"Fair">>, <<"Thundery", "Showers">>, <<"Mist">> }

Forecasts == { MkForecast(a, f) : a \in Areas, f \in ListTexts }

ForecastLists == UNION { [1..n -> Forecasts] : n \in 0..MaxForecasts }

\* the area arguments of filterByArea
AreaArgs == Areas \cup {"", "All Areas", "Yishun"}

\* label_location; Undefined stands for a missing value
MkLocation(d, lat, lon) == [defined |-> d, latitude |-> lat, longitude |-> lon]

UndefinedLocation == MkLocation(FALSE, 0, 0)

\* AreaMetadata
MkAreaMetadata(n, l) == [name |-> n, label_location |-> l]

AreaMetadataEntries ==
    { MkAreaMetadata("Bedok", MkLocation(TRUE, 1, 103)),
      MkAreaMetadata("Bedok", MkLocation(TRUE, 2, 104)),
      MkAreaMetadata("Changi", MkLocation(TRUE, 3, 105)) }

AreaMetadataLists == UNION { [1..n -> AreaMetadataEntries] : n \in 0..MaxMetadata }

\* bug variant: "All Areas" is treated as the name of an area
filterByAreaNamed(fs, area) ==
    IF area = "" THEN fs
    ELSE SelectSeq(fs, LAMBDA forecast : forecast.area = area)

\* WeatherHub.filterByArea, WeatherUtils.filterForecastsByArea
filterByArea(fs, area) ==
    IF area = "" \/ area = "All Areas" THEN fs
    ELSE SelectSeq(fs, LAMBDA forecast : forecast.area = area)

\* bug variant: the names are left in order of first occurrence
getUniqueAreasUnsorted(fs, includeAllAreas) ==
    LET areas == Distinct([i \in 1..Len(fs) |-> fs[i].area])
    IN  IF includeAllAreas THEN <<"All Areas">> \o areas ELSE areas

\* WeatherHub.getUniqueAreas, WeatherUtils.getUniqueAreas
getUniqueAreas(fs, includeAllAreas) ==
    LET areas == Sort(Distinct([i \in 1..Len(fs) |-> fs[i].area]), "default")
    IN  IF includeAllAreas THEN <<"All Areas">> \o areas ELSE areas

\* { ...forecast, location }
WithLocation(forecast, l) ==
    [area |-> forecast.area, forecast |-> forecast.forecast, location |-> l]

\* bug variant: the last matching entry is used
mergeLocationDataLast(fs, areaMetadata) ==
    [i \in 1..Len(fs) |->
        LET hits == SelectSeq(areaMetadata, LAMBDA area : area.name = fs[i].area)
        IN  WithLocation(fs[i], IF hits = <<>> THEN UndefinedLocation
                                ELSE hits[Len(hits)].label_location)]

\* mergeLocationData of WeatherHub and WeatherUtils,
\* EnhancedWeatherService.mergeAreaMetadataWithForecasts
mergeLocationData(fs, areaMetadata) ==
    [i \in 1..Len(fs) |->
        LET hits == SelectSeq(areaMetadata, LAMBDA area : area.name = fs[i].area)
        IN  WithLocation(fs[i], IF hits = <<>> THEN UndefinedLocation
                                ELSE hits[1].label_location)]

\* { forecast, count } | null
MkCommon(nul, f, n) == [isNull |-> nul, forecast |-> f, count |-> n]

NullCommon == MkCommon(TRUE, <<>>, 0)

\* Object.entries(counts) after the counting loop: one entry per text, in
\* order of first occurrence
CountEntries(fs) ==
    LET texts == [i \in 1..Len(fs) |-> fs[i].forecast]
        keys  == Distinct(texts)
    IN  [k \in 1..Len(keys) |->
            <<keys[k], Cardinality({ i \in 1..Len(texts) : texts[i] = keys[k] })>>]

\* bug variant: entries.sort((a, b) => a[1] - b[1])
getLeastCommonForecast(fs) ==
    IF Len(fs) = 0 THEN NullCommon
    ELSE LET entries == CountEntries(fs)
             sorted  == Sort(entries, "countAscending")
         IN  IF Len(entries) = 0 THEN NullCommon
             ELSE MkCommon(FALSE, sorted[1][1], sorted[1][2])

\* WeatherUtils.getMostCommonForecast
getMostCommonForecast(fs) ==
    IF Len(fs) = 0 THEN NullCommon
    ELSE LET entries == CountEntries(fs)
             sorted  == Sort(entries, "countDescending")
         IN  IF Len(entries) = 0 THEN NullCommon
             ELSE MkCommon(FALSE, sorted[1][1], sorted[1][2])

\* WeatherUtils.getForecastsByCategory
getForecastsByCategory(fs) ==
    [c \in { WeatherCategories[k] : k \in 1..Len(WeatherCategories) } |->
        SelectSeq(fs, LAMBDA forecast : categorizeWeatherForecast(forecast.forecast) = c)]

\* a percentage as the fraction num / den
MkPercentage(n, d) == [num |-> n, den |-> d]

\* bug variant: (count / totalForecasts) * 100 without the guard; 0 / 0 is NaN
PercentageUnguarded(count, totalForecasts) == MkPercentage(count * 100, totalForecasts)

\* totalForecasts > 0 ? (count / totalForecasts) * 100 : 0
Percentage(count, totalForecasts) ==
    IF totalForecasts > 0 THEN MkPercentage(count * 100, totalForecasts)
    ELSE MkPercentage(0, 1)

\* WeatherUtils.calculateWeatherStatistics
calculateWeatherStatistics(fs) ==
    LET forecastsByCategory == getForecastsByCategory(fs)
        totalForecasts      == Len(fs)
    IN  [ totalAreas    |-> totalForecasts,
          categoryStats |->
              [k \in 1..Len(WeatherCategories) |->
                  [ category   |-> WeatherCategories[k],
                    count      |-> Len(forecastsByCategory[WeatherCategories[k]]),
                    percentage |-> Percentage(Len(forecastsByCategory[WeatherCategories[k]]),
                                              totalForecasts) ]],
          mostCommon    |-> getMostCommonForecast(fs),
          byCategory    |-> forecastsByCategory ]

\* the last helper called, its arguments besides the forecasts, and its result
MkOut(f, a, inc, md, r) ==
    [fn |-> f, area |-> a, includeAllAreas |-> inc, areaMetadata |-> md, result |-> r]

NoOut == MkOut("none", "", FALSE, <<>>, <<>>)

UtilsInit ==
    /\ forecasts \in ForecastLists
    /\ out = NoOut

UtilsIdle ==
    /\ forecasts = <<>>
    /\ out = NoOut

\* WeatherHub.filterByArea(forecasts, area)
CallFilterByArea ==
    \E area \in AreaArgs :
        /\ out = NoOut
        /\ out' = MkOut("filterByArea", area, FALSE, <<>>, filterByArea(forecasts, area))
        /\ UNCHANGED <<forecasts, text, category, apiVars, hubVars, viewVars, readingVars>>

\* WeatherHub.getUniqueAreas(forecasts, includeAllAreas)
CallGetUniqueAreas ==
    \E includeAllAreas \in BOOLEAN :
        /\ out = NoOut
        /\ out' = MkOut("getUniqueAreas", "", includeAllAreas, <<>>,
                        getUniqueAreas(forecasts, includeAllAreas))
        /\ UNCHANGED <<forecasts, text, category, apiVars, hubVars, viewVars, readingVars>>

\* WeatherHub.mergeLocationData(forecasts, areaMetadata)
CallMergeLocationData ==
    \E areaMetadata \in AreaMetadataLists :
        /\ out = NoOut
        /\ out' = MkOut("mergeLocationData", "", FALSE, areaMetadata,
                        mergeLocationData(forecasts, areaMetadata))
        /\ UNCHANGED <<forecasts, text, category, apiVars, hubVars, viewVars, readingVars>>

\* WeatherUtils.getMostCommonForecast(forecasts)
CallGetMostCommonForecast ==
    /\ out = NoOut
    /\ out' = MkOut("getMostCommonForecast", "", FALSE, <<>>, getMostCommonForecast(forecasts))
    /\ UNCHANGED <<forecasts, text, category, apiVars, hubVars, viewVars, readingVars>>

\* WeatherUtils.calculateWeatherStatistics(forecasts)
CallCalculateWeatherStatistics ==
    /\ out = NoOut
    /\ out' = MkOut("calculateWeatherStatistics", "", FALSE, <<>>,
                    calculateWeatherStatistics(forecasts))
    /\ UNCHANGED <<forecasts, text, category, apiVars, hubVars, viewVars, readingVars>>

\* WeatherUtils.categorizeWeatherForecast(text)
CallCategorize ==
    /\ category = "none"
    /\ category' = categorizeWeatherForecast(text)
    /\ UNCHANGED <<text, forecasts, out, apiVars, hubVars, viewVars, readingVars>>

----------------------------------------------------------------------------
(* The weather views: queries, rendering and the retry control *)

\* a useQuery of a view.  fn: what its queryFn calls
MkQueryDef(f, a) == [fn |-> f, arg |-> a]

Routes == {"weather", "weatherHub", "weatherDashboard", "weatherStats"}

\* the tab components of the weather-hub route
Tabs == {"TwoHourForecast", "AirTemperature", "FourDayOutlook",
         "WeatherStatistics", "WindDirection", "WeatherMap"}

Views == Routes \cup Tabs

\* the queries each view declares, in declaration order
ViewQueries(v) ==
    CASE v = "weather"           -> <<MkQueryDef("service", "getTwoHourForecast")>>
      [] v = "weatherHub"        -> <<MkQueryDef("hubForecast", "two-hour")>>
      [] v = "weatherDashboard"  -> <<MkQueryDef("hubDashboard", "none"),
                                      MkQueryDef("hubForecastTagged", "twenty-four-hour")>>
      [] v = "weatherStats"      -> <<MkQueryDef("service", "getTwoHourForecast")>>
      [] v = "TwoHourForecast"   -> <<MkQueryDef("service", "getTwoHourForecast")>>
      [] v = "AirTemperature"    -> <<MkQueryDef("service", "getAirTemperature")>>
      [] v = "FourDayOutlook"    -> <<MkQueryDef("service", "getFourDayOutlook")>>
      [] v = "WeatherStatistics" -> <<MkQueryDef("service", "getTwoHourForecast")>>
      [] v = "WindDirection"     -> <<MkQueryDef("service", "getWindDirection")>>
      [] v = "WeatherMap"        -> <<MkQueryDef("service", "getAirTemperature"),
                                      MkQueryDef("service", "getWindDirection"),
                                      MkQueryDef("service", "getTwoHourForecast")>>

\* state of a query: status is "loading" until the first fetch ends; hub is
\* the WeatherResult its queryFn last got from WeatherHub
MkQuery(st, f, r, d, e, h) ==
    [status |-> st, fetching |-> f, resp |-> r, dash |-> d, err |-> e, hub |-> h]

LoadingQuery == MkQuery("loading", TRUE, UndefResp, NoDash, NoError, NoResult)

\* new Error(message), optionally tagged with isNoDataAvailable: true
PlainError(message, tagged) ==
    MkError(TRUE, FALSE, "Error", message, TRUE, tagged,
            IF tagged THEN JsBool(TRUE) ELSE JsUndefined)

FailedHubText      == <<"Failed", "to", "fetch", "weather", "data">>
FailedExtendedText == <<"Failed", "to", "fetch", "extended", "forecast", "data">>

\* outcomes drawn for the requests behind a query
ViewOutcomes ==
    { MkOutcome("fulfilled", r, NoError) :
        r \in { MkResp("object", FALSE, Absent, Absent, Absent, "none"),
                MkResp("object", TRUE, 0, 0, 0, "none"),
                MkResp("object", TRUE, 2, 2, 2, "none") } }
    \cup { MkOutcome("rejected", UndefResp, e) :
             e \in { GenericError, PhraseError,
                     NewApiError(404, <<"Not", "Found">>, JsUndefined) } }

\* queryFn of the weatherHub route
HubForecastQuery(r) ==
    IF ~r.success
    THEN MkQuery("error", FALSE, UndefResp, NoDash,
                 PlainError(JsOr(r.error, JsStr(FailedHubText)).s, FALSE), r)
    ELSE MkQuery("success", FALSE, r.data, NoDash, NoError, r)

\* queryFn of the extended-forecast query of the weatherDashboard route
HubForecastTaggedQuery(r) ==
    IF ~r.success
    THEN MkQuery("error", FALSE, UndefResp, NoDash,
                 PlainError(JsOr(r.error, JsStr(FailedExtendedText)).s,
                            Truthy(r.isNoDataAvailable)), r)
    ELSE MkQuery("success", FALSE, r.data, NoDash, NoError, r)

\* the query after its queryFn ended on the request outcomes os
QueryResult(q, os) ==
    CASE q.fn = "service" ->
           IF os[1].kind = "fulfilled"
           THEN MkQuery("success", FALSE, [os[1].resp EXCEPT !.ep = ServiceEndpoint(q.arg)],
                        NoDash, NoError, NoResult)
           ELSE MkQuery("error", FALSE, UndefResp, NoDash, os[1].err, NoResult)
      [] q.fn = "hubForecast" -> HubForecastQuery(ForecastResult(os[1]))
      [] q.fn = "hubForecastTagged" -> HubForecastTaggedQuery(ForecastResult(os[1]))
      [] q.fn = "hubDashboard" ->
           MkQuery("success", FALSE, UndefResp,
                   HubDashboardResult(SubResult(HubDashboardCalls[1], os[1]),
                                      SubResult(HubDashboardCalls[2], os[2]),
                                      SubResult(HubDashboardCalls[3], os[3])),
                   NoError, NoResult)

\* number of requests behind one run of the queryFn
QueryRequests(q) == IF q.fn = "hubDashboard" THEN 3 ELSE 1

\* what a view renders.  branch: "loading" | "error" | "nodata" | "content";
\* variant: the text variant of WeatherErrorDisplay; targets: the queries the
\* retry control of the branch refetches
MkUi(b, v, hr, tg) == [branch |-> b, variant |-> v, hasRetry |-> hr, targets |-> tg]

NoUi == MkUi("none", "none", FALSE, {})

\* isNoDataAvailable of WeatherErrorDisplay
DisplayIsNoData(error) == error.isApiError /\ Truthy(error.flag)

\* WeatherErrorDisplay with the given retry handler
WeatherErrorDisplay(targets, error) ==
    MkUi("error", IF DisplayIsNoData(error) THEN "noData" ELSE "generic", TRUE, targets)

\* response?.data?.items is a non-empty array
HasItems(r)    == r.t = "object" /\ r.hasData /\ r.items # Absent /\ r.items > 0
HasRecords(r)  == r.t = "object" /\ r.hasData /\ r.records # Absent /\ r.records > 0
HasReadings(r) == r.t = "object" /\ r.hasData /\ r.readings # Absent /\ r.readings > 0

IsError(q)   == q.status = "error"
IsLoading(q) == q.status = "loading"

\* the weather, weatherHub and weatherStats routes
RenderRoute(qs) ==
    IF IsError(qs[1]) THEN WeatherErrorDisplay({1}, ThrownUndefined)
    ELSE IF IsLoading(qs[1]) THEN MkUi("loading", "none", FALSE, {})
    ELSE IF HasItems(qs[1].resp) THEN MkUi("content", "none", TRUE, {1})
    ELSE MkUi("nodata", "none", TRUE, {1})

\* the weatherDashboard route; handleRefresh refetches both queries
RenderDashboard(qs) ==
    IF IsError(qs[1]) \/ IsError(qs[2])
    THEN WeatherErrorDisplay({1, 2}, IF IsError(qs[1]) THEN qs[1].err ELSE qs[2].err)
    ELSE IF IsLoading(qs[1]) \/ IsLoading(qs[2]) THEN MkUi("loading", "none", FALSE, {})
    ELSE IF qs[1].dash.success /\ HasItems(qs[1].dash.twoHourForecast)
         THEN MkUi("content", "none", TRUE, {1, 2})
    ELSE MkUi("nodata", "none", TRUE, {1, 2})

\* a tab component of the weather-hub route: texts only
RenderTab(v, qs) ==
    IF \E i \in 1..Len(qs) : IsLoading(qs[i]) THEN MkUi("loading", "none", FALSE, {})
    ELSE IF \E i \in 1..Len(qs) :
                IsError(qs[i]) \/ ~(qs[i].resp.t = "object" /\ qs[i].resp.hasData)
         THEN MkUi("error", "none", FALSE, {})
    ELSE IF \/ v \in {"TwoHourForecast", "WeatherStatistics"} /\ ~HasItems(qs[1].resp)
            \/ v \in {"AirTemperature", "WindDirection", "WeatherMap"} /\ ~HasReadings(qs[1].resp)
            \/ v = "FourDayOutlook" /\ ~HasRecords(qs[1].resp)
         THEN MkUi("nodata", "none", FALSE, {})
    ELSE MkUi("content", "none", FALSE, {})

Render(v, qs) ==
    IF v \in Tabs THEN RenderTab(v, qs)
    ELSE IF v = "weatherDashboard" THEN RenderDashboard(qs)
    ELSE RenderRoute(qs)

ViewInit ==
    /\ view \in Views
    /\ queries = [i \in 1..Len(ViewQueries(view)) |-> LoadingQuery]
    /\ ui = Render(view, queries)
    /\ refetched = {}

\* a fetch of query i ends
QuerySettles ==
    \E i \in 1..Len(queries) :
      \E os \in [1..QueryRequests(ViewQueries(view)[i]) -> ViewOutcomes] :
        /\ queries[i].fetching
        /\ queries' = [queries EXCEPT ![i] = QueryResult(ViewQueries(view)[i], os)]
        /\ ui' = Render(view, queries')
        /\ UNCHANGED <<view, refetched, apiVars, hubVars, pureVars>>

\* the user activates the retry control of the branch shown
ClickRetry ==
    /\ ui.hasRetry
    /\ refetched' = ui.targets
    /\ queries' = [i \in 1..Len(queries) |->
                     IF i \in ui.targets THEN [queries[i] EXCEPT !.fetching = TRUE]
                     ELSE queries[i]]
    /\ ui' = Render(view, queries')
    /\ UNCHANGED <<view, apiVars, hubVars, pureVars>>

InitView ==
    /\ ViewInit
    /\ HubInit
    /\ apiArgs = NoArgs /\ apiError = NoError
    /\ ReadingsIdle /\ UtilsIdle /\ CategorizeIdle

NextView ==
    \/ QuerySettles
    \/ ClickRetry

\* the weather views on their own
SpecView == InitView /\ [][NextView]_vars

----------------------------------------------------------------------------
(* The service layer as a whole *)

Init ==
    /\ HubInit
    /\ apiArgs = NoArgs /\ apiError = NoError
    /\ view = "none" /\ queries = <<>> /\ ui = NoUi /\ refetched = {}
    /\ ReadingsIdle /\ UtilsIdle /\ CategorizeIdle

Next ==
    \/ CallService
    \/ SettleService
    \/ CallGetForecast
    \/ CallGetWeatherData
    \/ SettleGetForecast
    \/ SettleGetWeatherData
    \/ CallHubDashboard
    \/ SettleHubDashboard
    \/ CallEnhancedDashboard
    \/ CallEnhancedExtended
    \/ SettleEnhanced

Spec == Init /\ [][Next]_vars

InitApiError ==
    /\ ApiInit
    /\ HubInit
    /\ view = "none" /\ queries = <<>> /\ ui = NoUi /\ refetched = {}
    /\ ReadingsIdle /\ UtilsIdle /\ CategorizeIdle

NextApiError == Construct

\* the ApiError constructor on its own
SpecApiError == InitApiError /\ [][NextApiError]_vars

\* no service call, no ApiError and no view
ServiceIdle ==
    /\ HubInit
    /\ apiArgs = NoArgs /\ apiError = NoError
    /\ view = "none" /\ queries = <<>> /\ ui = NoUi /\ refetched = {}

InitReadings ==
    /\ ReadingsInit
    /\ UtilsIdle
    /\ CategorizeIdle
    /\ ServiceIdle

NextReadings ==
    \/ RenderWindDirection
    \/ RenderAirTemperature

\* the WindDirection and AirTemperature components on their own
SpecReadings == InitReadings /\ [][NextReadings]_vars

InitUtils ==
    /\ UtilsInit
    /\ ReadingsIdle
    /\ CategorizeIdle
    /\ ServiceIdle

NextUtils ==
    \/ CallFilterByArea
    \/ CallGetUniqueAreas
    \/ CallMergeLocationData
    \/ CallGetMostCommonForecast
    \/ CallCalculateWeatherStatistics

\* the list helpers on their own
SpecUtils == InitUtils /\ [][NextUtils]_vars

InitCategorize ==
    /\ CategorizeInit
    /\ ReadingsIdle
    /\ UtilsIdle
    /\ ServiceIdle

NextCategorize == CallCategorize

\* categorizeWeatherForecast on its own
SpecCategorize == InitCategorize /\ [][NextCategorize]_vars

----------------------------------------------------------------------------
(* Properties *)

HubSingleOps == {"getForecast", "getWeatherData"}
Returned     == promise = "fulfilled"

\* C1: getForecast, getWeatherData and getWeatherDashboard never reject: once
\* their requests have settled the promise is fulfilled with a result object,
\* and after a rejected request getForecast / getWeatherData return
\* success=false, data=null and the Error's message, or "Unknown error" for a
\* value that is not an Error.
C1_HubNeverRejects ==
    /\ op \in HubSingleOps \cup {"hubDashboard"} => promise \in {"pending", "fulfilled"}
    /\ (op \in HubSingleOps /\ reqs[1].st # "pending") => Returned
    /\ (op = "hubDashboard" /\ \A i \in 1..3 : reqs[i].st # "pending")
           => (Returned /\ dash.shape \in {"full", "partial"})
    /\ (op \in HubSingleOps /\ Returned /\ reqs[1].st = "rejected")
           => /\ result.success = FALSE
              /\ result.data = NullResp
              /\ result.error = JsStr(IF reqs[1].err.isError
                                      THEN reqs[1].err.message
                                      ELSE <<"Unknown", "error">>)

C1_Witness ==
    /\ op = "getWeatherData" /\ Returned
    /\ reqs[1].st = "rejected" /\ ~reqs[1].err.isError
    /\ result.error = JsStr(<<"Unknown", "error">>)

C2_NonEmpty(r, len) == r.t = "object" /\ r.hasData /\ len >= 1

\* C2: after a fulfilled request getForecast succeeds exactly when data.items
\* or data.records is non-empty and getWeatherData exactly when data.readings
\* or data.items is non-empty; otherwise the result is success=false,
\* isNoDataAvailable=true, the fixed text, and data is the response received.
C2_EmptyPayloadCheck ==
    (op \in HubSingleOps /\ Returned /\ reqs[1].st = "fulfilled") =>
        LET r == reqs[1].resp IN
        /\ op = "getForecast" =>
              (result.success <=> (C2_NonEmpty(r, r.items) \/ C2_NonEmpty(r, r.records)))
        /\ op = "getWeatherData" =>
              (result.success <=> (C2_NonEmpty(r, r.readings) \/ C2_NonEmpty(r, r.items)))
        /\ ~result.success =>
              /\ result.isNoDataAvailable = JsBool(TRUE)
              /\ result.data = r
              /\ result.error =
                   IF op = "getForecast"
                   THEN JsStr(<<"No", "weather", "forecast", "data", "available", "at", "this", "time.">>)
                   ELSE JsStr(<<"No", "weather", "data", "available", "at", "this", "time.">>)
        /\ result.success => result.data = r

C2_Witness ==
    /\ op = "getForecast" /\ Returned /\ reqs[1].st = "fulfilled"
    /\ reqs[1].resp.hasData /\ reqs[1].resp.items = 0
    /\ reqs[1].resp.records = Absent /\ reqs[1].resp.readings > 0
    /\ ~result.success /\ result.data = reqs[1].resp

C4_FlagIsBoolean ==
    apiError # NoError =>
        apiError.flag =
            JsBool(\/ apiArgs.status = 404
                   \/ HasNoDataPhrase(apiArgs.statusText)
                   \/ (apiArgs.data.t = "string" /\ HasNoDataPhrase(apiArgs.data.s))
                   \/ (apiArgs.data.t = "object" /\ apiArgs.data.mt = "string"
                       /\ HasNoDataPhrase(apiArgs.data.ms)))

\* C5: in the weatherDashboard route, when the 24-hour forecast fetch ended
\* with a hub result of success=false, the error display shows the no-data
\* variant exactly when that result has isNoDataAvailable=true.
C5_NoDataVariantShown ==
    (view = "weatherDashboard" /\ queries[2].status = "error") =>
        /\ ui.branch = "error"
        /\ ui.variant = IF queries[2].hub.isNoDataAvailable = JsBool(TRUE)
                        THEN "noData" ELSE "generic"

\* C6: a weather view in an error or no-data state presents a retry control
\* that refetches every query the view depends on.
C6_RetryOffered ==
    /\ ui.branch \in {"error", "nodata"} =>
           (ui.hasRetry /\ ui.targets = 1..Len(queries))
    /\ refetched # {} => refetched = 1..Len(queries)

\* the data the hub holds for request r: null when the request threw,
\* otherwise the response received
C7_DataOf(r) == IF r.st = "rejected" THEN NullResp ELSE r.resp

\* the only endpoint a non-null data value may come from
C7_From(d, e) == d.t = "object" => d.ep = e

\* C7: getWeatherDashboard issues exactly three requests (two-hour forecast,
\* air temperature, wind direction), all of them before any has completed;
\* it returns exactly when all three have settled, and for every completion
\* order each returned field holds the data of the request of its own kind.
C7_HubDashboardFanOut ==
    op = "hubDashboard" =>
        /\ Len(reqs) = 3
        /\ <<reqs[1].ep, reqs[2].ep, reqs[3].ep>> =
             <<"weatherGetTwoHourForecast", "weatherGetAirTemperature",
               "weatherGetWindDirection">>
        /\ Len(events) >= 3
        /\ \A k \in 1..Len(events) : (events[k].e = "issue") <=> (k <= 3)
        /\ Returned <=> (\A i \in 1..3 : reqs[i].st # "pending")
        /\ Returned =>
             /\ events[Len(events)].e = "return"
             /\ dash.twoHourForecast = C7_DataOf(reqs[1])
             /\ dash.airTemperature = C7_DataOf(reqs[2])
             /\ dash.windDirection = C7_DataOf(reqs[3])
             /\ C7_From(dash.twoHourForecast, "weatherGetTwoHourForecast")
             /\ C7_From(dash.airTemperature, "weatherGetAirTemperature")
             /\ C7_From(dash.windDirection, "weatherGetWindDirection")

\* the requests completed in the order wind, forecast, temperature
C7_Witness ==
    /\ op = "hubDashboard" /\ Returned /\ dash.success
    /\ events[4].i = 3 /\ events[5].i = 1 /\ events[6].i = 2
    /\ dash.windDirection.ep = "weatherGetWindDirection"

C8_Failed(i) == ~subs[i].res.success

\* the error texts of the failed sub-requests, in the order forecast,
\* temperature, wind, separated by ", "
C8_Texts ==
    LET t(i) == IF C8_Failed(i) THEN <<subs[i].res.error.s>> ELSE <<>>
        l    == t(1) \o t(2) \o t(3)
    IN  CASE Len(l) = 0 -> <<>>
          [] Len(l) = 1 -> l[1]
          [] Len(l) = 2 -> l[1] \o <<",">> \o l[2]
          [] Len(l) = 3 -> l[1] \o <<",">> \o l[2] \o <<",">> \o l[3]

EnhancedOps == {"enhancedDashboard", "enhancedExtended"}

\* positions in events at which a request settled as rejected
C9_RejectionsAt ==
    {k \in 1..Len(events) : events[k].e = "settle" /\ reqs[events[k].i].st = "rejected"}

\* the request whose rejection came first in time
C9_FirstRejected ==
    events[CHOOSE k \in C9_RejectionsAt : \A j \in C9_RejectionsAt : k <= j].i

C9_Responses ==
    <<dash.twoHourForecast, dash.airTemperature, dash.windDirection,
      dash.twentyFourHour, dash.fourDay>>

\* C9: the EnhancedWeatherService fan-outs never reject and are
\* all-or-nothing: success=true with every response exactly when all requests
\* fulfilled; after a rejection success=false, the error is the message of
\* the rejection that came first in time, and no response is carried.
C9_EnhancedAllOrNothing ==
    op \in EnhancedOps =>
        /\ promise \in {"pending", "fulfilled"}
        /\ Len(reqs) = IF op = "enhancedDashboard" THEN 3 ELSE 2
        /\ Returned <=> \/ \E i \in 1..Len(reqs) : reqs[i].st = "rejected"
                        \/ \A i \in 1..Len(reqs) : reqs[i].st = "fulfilled"
        /\ Returned =>
             /\ dash.success <=> (\A i \in 1..Len(reqs) : reqs[i].st = "fulfilled")
             /\ dash.success =>
                  /\ dash.shape = "full"
                  /\ C9_Responses =
                       IF op = "enhancedDashboard"
                       THEN <<reqs[1].resp, reqs[2].resp, reqs[3].resp, UndefResp, UndefResp>>
                       ELSE <<UndefResp, UndefResp, UndefResp, reqs[1].resp, reqs[2].resp>>
             /\ ~dash.success =>
                  /\ dash.shape = "bare"
                  /\ \A k \in 1..5 : C9_Responses[k] = UndefResp
                  /\ LET e == reqs[C9_FirstRejected].err IN
                     dash.error = JsStr(IF e.isError THEN e.message
                                        ELSE <<"Unknown", "error">>)

\* two requests rejected with different errors, the later-listed one first,
\* and one fulfilled
C9_Witness ==
    /\ op = "enhancedDashboard" /\ Returned
    /\ reqs[1].st = "fulfilled" /\ reqs[2].st = "rejected" /\ reqs[3].st = "rejected"
    /\ C9_FirstRejected = 3
    /\ reqs[2].err # reqs[3].err
    /\ dash.error = JsStr(reqs[3].err.message)

SingleOps == {"service", "getForecast", "getWeatherData"}

\* the endpoint a call is to use, by method or type argument
C10_Endpoint ==
    ("getTwoHourForecast" :> "weatherGetTwoHourForecast")
    @@ ("getAirTemperature" :> "weatherGetAirTemperature")
    @@ ("getWindDirection" :> "weatherGetWindDirection")
    @@ ("getLightning" :> "weatherGetLightning")
    @@ ("getWbgt" :> "weatherGetWbgt")
    @@ ("getTwentyFourHourForecast" :> "weatherGetTwentyFourHourForecast")
    @@ ("getFourDayOutlook" :> "weatherGetFourDayOutlook")
    @@ ("two-hour" :> "weatherGetTwoHourForecast")
    @@ ("twenty-four-hour" :> "weatherGetTwentyFourHourForecast")
    @@ ("four-day" :> "weatherGetFourDayOutlook")
    @@ ("air-temperature" :> "weatherGetAirTemperature")
    @@ ("wind-direction" :> "weatherGetWindDirection")
    @@ ("lightning" :> "weatherGetLightning")
    @@ ("wbgt" :> "weatherGetWbgt")

\* C10: one call of a WeatherService method, of getForecast or of
\* getWeatherData issues exactly one request, to the endpoint its method or
\* type argument selects, however that request ends; a failed request is not
\* issued again.
C10_NoRetry ==
    op \in SingleOps =>
        /\ Len(reqs) = 1
        /\ reqs[1].ep = C10_Endpoint[arg]
        /\ Cardinality({k \in 1..Len(events) : events[k].e = "issue"}) = 1
        /\ reqs[1].st # "pending" => promise # "pending"

C10_Witness ==
    /\ op = "getWeatherData" /\ arg = "wbgt"
    /\ reqs[1].st = "rejected" /\ promise = "fulfilled"
    /\ Len(reqs) = 1 /\ reqs[1].ep = "weatherGetWbgt"

\* the non-null values of the latest reading set, in order
C11_Valid == SelectSeq(latest.data, LAMBDA value : value # NullValue)

\* the direction of r degrees lies within half a degree of the direction of
\* the vector (sum of cosines, sum of sines) of the non-null values
C11_Near(r) ==
    LET u == <<CosDeg(r), SinDeg(r)>>
        v == <<CosSum(C11_Valid), SinSum(C11_Valid)>>
        c == Cross(u, v)
    IN  /\ Dot(u, v) > 0
        /\ (IF c < 0 THEN 0 - c ELSE c) <= (Dot(u, v) \div 114) + 2 * Len(C11_Valid) * Scale

\* C11: the average direction WindDirection shows for a reading set with a
\* non-null value is the direction of the mean of the unit vectors of the
\* non-null values, normalised into [0, 360) and then rounded to an integer;
\* for the readings 0 and 90 it is 45 and for 350 and 10 it is 0, not 180.
C11_CircularMean ==
    (shown.component = "WindDirection" /\ Len(C11_Valid) > 0) =>
        /\ shown.avg \in 0..360
        /\ C11_Near(shown.avg)
        /\ C11_Valid = <<0, 90>> => shown.avg = 45
        /\ C11_Valid = <<350, 10>> => shown.avg = 0

C11_Witness ==
    /\ shown.component = "WindDirection"
    /\ latest.data = <<350, NullValue, 10>>
    /\ shown.avg = 0 /\ shown.cardinal = "N" /\ shown.count = 2

\* positions of the forecasts of the area asked for
C12_Kept == { i \in 1..Len(forecasts) : forecasts[i].area = out.area }

C12_Nth(k) ==
    CHOOSE i \in C12_Kept : Cardinality({ j \in C12_Kept : j < i }) = k - 1

C12_Filtered ==
    out.fn = "filterByArea" =>
        /\ out.area \in {"", "All Areas"} => out.result = forecasts
        /\ out.area \notin {"", "All Areas"} =>
             /\ Len(out.result) = Cardinality(C12_Kept)
             /\ \A k \in 1..Len(out.result) : out.result[k] = forecasts[C12_Nth(k)]
        /\ filterByArea(out.result, out.area) = out.result

\* C12: filterByArea returns the forecasts as they are for the area "" or
\* "All Areas", and for any other area exactly the forecasts of that area in
\* their original order; filtering the result again changes nothing, and the
\* input list is left as it was.
C12_FilterByArea == []C12_Filtered /\ [][forecasts' = forecasts]_vars

C12_Witness ==
    /\ out.fn = "filterByArea" /\ out.area = "Bedok"
    /\ Len(forecasts) = 3 /\ Len(out.result) = 2
    /\ forecasts[2].area = "Changi"
    /\ out.result = <<forecasts[1], forecasts[3]>>
    /\ forecasts[1] # forecasts[3]

\* the names in the result of getUniqueAreas, without the leading option
C13_Names ==
    IF out.includeAllAreas /\ Len(out.result) > 0 THEN Tail(out.result) ELSE out.result

\* C13: getUniqueAreas returns every area name of the list exactly once, in
\* ascending order, after the option "All Areas" at index 0 when
\* includeAllAreas is true and on their own when it is false.
C13_GetUniqueAreas ==
    out.fn = "getUniqueAreas" =>
        /\ out.includeAllAreas => (Len(out.result) > 0 /\ out.result[1] = "All Areas")
        /\ { C13_Names[k] : k \in 1..Len(C13_Names) } =
             { forecasts[i].area : i \in 1..Len(forecasts) }
        /\ \A j, k \in 1..Len(C13_Names) :
             j < k => StringLess(C13_Names[j], C13_Names[k])

C13_Witness ==
    /\ out.fn = "getUniqueAreas" /\ out.includeAllAreas
    /\ Len(forecasts) = 3
    /\ forecasts[1].area = "Changi" /\ forecasts[2].area = "Ang Mo Kio"
    /\ forecasts[3].area = "Changi"
    /\ out.result = <<"All Areas", "Ang Mo Kio", "Changi">>

\* the label_location of the first entry named area, or undefined
C14_Location(area) ==
    LET md   == out.areaMetadata
        hits == { k \in 1..Len(md) : md[k].name = area }
    IN  IF hits = {} THEN UndefinedLocation
        ELSE md[CHOOSE k \in hits : \A j \in hits : k <= j].label_location

C14_Merged ==
    out.fn = "mergeLocationData" =>
        /\ Len(out.result) = Len(forecasts)
        /\ \A i \in 1..Len(forecasts) :
             /\ out.result[i].area = forecasts[i].area
             /\ out.result[i].forecast = forecasts[i].forecast
             /\ out.result[i].location = C14_Location(forecasts[i].area)

\* C14: mergeLocationData returns one element per forecast, in order, with
\* the forecast's area and text and the label_location of the first metadata
\* entry named like the area, or undefined when there is none; the forecast
\* list is left as it was.
C14_MergeLocationData == []C14_Merged /\ [][forecasts' = forecasts]_vars

C14_Witness ==
    /\ out.fn = "mergeLocationData"
    /\ Len(forecasts) = 2 /\ Len(out.areaMetadata) = 2
    /\ forecasts[1].area = "Bedok" /\ forecasts[2].area = "Ang Mo Kio"
    /\ out.areaMetadata[1].name = "Bedok" /\ out.areaMetadata[2].name = "Bedok"
    /\ out.areaMetadata[1].label_location # out.areaMetadata[2].label_location
    /\ out.result[1].location = out.areaMetadata[1].label_location
    /\ out.result[2].location = UndefinedLocation

\* number of positions of list that hold x
C15_Occurrences(list, x) == Cardinality({ i \in 1..Len(list) : list[i] = x })

C15_Categories == {"SUNNY", "CLOUDY", "RAINY", "THUNDERY", "WINDY", "MISC"}

\* C15: calculateWeatherStatistics puts every forecast in the list of its
\* category and in no other, totalAreas is the number of forecasts, the
\* counts add up to totalAreas, and each percentage is count / totalAreas *
\* 100, or 0 when there are no forecasts.
C15_StatisticsPartition ==
    out.fn = "calculateWeatherStatistics" =>
        LET s == out.result
            counts[k \in 0..Len(s.categoryStats)] ==
                IF k = 0 THEN 0 ELSE counts[k - 1] + s.categoryStats[k].count
        IN  /\ s.totalAreas = Len(forecasts)
            /\ DOMAIN s.byCategory = C15_Categories
            /\ \A i \in 1..Len(forecasts), c \in C15_Categories :
                 C15_Occurrences(s.byCategory[c], forecasts[i]) =
                     IF c = categorizeWeatherForecast(forecasts[i].forecast)
                     THEN C15_Occurrences(forecasts, forecasts[i]) ELSE 0
            /\ { s.categoryStats[k].category : k \in 1..Len(s.categoryStats) } = C15_Categories
            /\ Len(s.categoryStats) = 6
            /\ counts[Len(s.categoryStats)] = s.totalAreas
            /\ \A k \in 1..Len(s.categoryStats) :
                 LET e == s.categoryStats[k] IN
                 /\ e.count = Len(s.byCategory[e.category])
                 /\ e.percentage.den > 0
                 /\ IF s.totalAreas = 0 THEN e.percentage.num = 0
                    ELSE e.percentage.num * s.totalAreas = e.count * 100 * e.percentage.den

C15_Witness ==
    /\ out.fn = "calculateWeatherStatistics"
    /\ out.result.totalAreas = 3
    /\ Len(out.result.byCategory["THUNDERY"]) = 2
    /\ Len(out.result.byCategory["MISC"]) = 1
    /\ \E k \in 1..6 : /\ out.result.categoryStats[k].category = "THUNDERY"
                       /\ out.result.categoryStats[k].percentage = MkPercentage(200, 3)

\* number of forecasts with the text t
C16_Count(t) == Cardinality({ i \in 1..Len(forecasts) : forecasts[i].forecast = t })

C17_Order == <<"SUNNY", "THUNDERY", "RAINY", "CLOUDY", "WINDY">>

C17_Keywords ==
    << {"fair", "sunny"}, {"thunder"}, {"rain", "shower", "drizzle"},
       {"cloudy", "overcast", "hazy"}, {"wind", "gust"} >>

\* the text contains a keyword of the k-th category, in any letter case
C17_Matches(k) ==
    \E w \in C17_Keywords[k] : includes(toLowerCase(TextChars(text)), Chars(w))

\* C17: categorizeWeatherForecast gives every text exactly one category: the
\* first of Sunny, Thundery, Rainy, Cloudy, Windy of which the text contains a
\* keyword in any letter case, and Misc when it contains none; "Thundery
\* Showers" and "Heavy Thundery Showers with Gusty Winds" are Thundery and
\* "Partly Cloudy (Day)" is Cloudy.
C17_FirstMatch ==
    category # "none" =>
        /\ category \in {"SUNNY", "THUNDERY", "RAINY", "CLOUDY", "WINDY", "MISC"}
        /\ \A k \in 1..5 :
             category = C17_Order[k] <=>
                 (C17_Matches(k) /\ \A j \in 1..(k - 1) : ~C17_Matches(j))
        /\ category = "MISC" <=> \A k \in 1..5 : ~C17_Matches(k)
        /\ text = <<"Thundery", "Showers">> => category = "THUNDERY"
        /\ text = <<"Heavy", "Thundery", "Showers", "with", "Gusty", "Winds">>
               => category = "THUNDERY"
        /\ text = <<"Partly", "Cloudy", "(Day)">> => category = "CLOUDY"

C17_Witness ==
    /\ text = <<"Heavy", "Thundery", "Showers", "with", "Gusty", "Winds">>
    /\ category = "THUNDERY"

\* number of non-null values in the latest reading set
C18_NonNull == Cardinality({ i \in 1..Len(latest.data) : latest.data[i] # NullValue })

\* C18: WindDirection and AirTemperature show, for every latest reading set,
\* an average and a count over the non-null values only, and the average 0
\* (with cardinal direction N for wind) when no value is non-null.
C18_NullReadingsExcluded ==
    shown.component # "none" =>
        /\ shown.status = "content"
        /\ shown.count = C18_NonNull
        /\ C18_NonNull = 0 =>
             /\ shown.avg = 0
             /\ shown.component = "WindDirection" => shown.cardinal = "N"
        /\ (shown.component = "AirTemperature" /\ C18_NonNull > 0) =>
             shown.avg = AvgTempTenths(SelectSeq(latest.data, LAMBDA value : value # NullValue))

\* C19: for a reading set with a non-null value the average direction shown
\* by WindDirection is an integer from 0 to 359.
C19_AvgInRange ==
    (shown.component = "WindDirection" /\ shown.count > 0) => shown.avg \in 0..359

====
